---- MODULE Spec2Model ----
(***************************************************************************)
(* cputemp2rgb: a daemon that maps the CPU temperature to the colour of    *)
(* the motherboard's RGB lighting (src/cputemp2rgb.py).                    *)
(*                                                                         *)
(* Floats are modelled in fixed point: the integer n stands for the float  *)
(* n / FP.  The transcendental functions of the colour model (numpy.log    *)
(* and ** with a negative exponent) are computed by range reduction and    *)
(* series in that fixed point; the raw channel values agree with the      *)
(* double-precision ones to within 0.03, so a channel differs by at most   *)
(* one count, and only where the raw value is that close to an integer.    *)
(* The smoothed temperature is kept to FracBits binary fraction digits and *)
(* the averaging rounds to nearest-even, as the hardware does at the 53rd  *)
(* bit.  FracBits is at least 1: 85.0 has an even significand.             *)
(***************************************************************************)
EXTENDS Integers, Sequences, FiniteSets, TLC

(* ------------------------------ bounds --------------------------------- *)

\* Binary fraction digits kept by the smoothed temperature.
FracBits == 1

\* The loop counter (a history variable) saturates here; the loop goes on.
MaxTicks == 3

\* Longest list of entries of one sensor group.
MaxEntries == 2

(* --------------------------- fixed point ------------------------------- *)

FP == 2^15

\* The float with the integer value d.
F(d) == d * FP

\* Spacing of the representable smoothed temperatures.
Ulp == FP \div (2^FracBits)

Abs(x) == IF x < 0 THEN -x ELSE x

Min(x, y) == IF x < y THEN x ELSE y

\* a / d rounded to nearest, for a >= 0 and d > 0.
RDiv(a, d) == (2 * a + d) \div (2 * d)

\* a / d rounded to nearest, either sign of a.
SDiv(a, d) == IF a < 0 THEN -RDiv(-a, d) ELSE RDiv(a, d)

\* Not-a-number: numpy.log of a negative number.
NaN == -(2^30)

\* Minus infinity: numpy.log(0).
NegInf == -(2^30) + 1

\* ln 2.
LN2 == 22713

RECURSIVE Log2Floor(_)
Log2Floor(n) == IF n < 2 THEN 0 ELSE 1 + Log2Floor(n \div 2)

\* ln(m / FP) for FP <= m < 2 FP:  2 atanh y with y = (m - 1) / (m + 1).
LnMant(m) ==
    LET y   == RDiv((m - FP) * FP, m + FP)
        y2  == RDiv(y * y, FP)
        h9  == RDiv(FP, 9)
        h7  == RDiv(FP, 7) + RDiv(y2 * h9, FP)
        h5  == RDiv(FP, 5) + RDiv(y2 * h7, FP)
        h3  == RDiv(FP, 3) + RDiv(y2 * h5, FP)
        h1  == FP + RDiv(y2 * h3, FP)
    IN  RDiv(2 * y * h1, FP)

\* numpy.log: the natural logarithm of x / FP.
Ln(x) ==
    IF x < 0 THEN NaN
    ELSE IF x = 0 THEN NegInf
    ELSE LET k == Log2Floor(x)
             m == IF k <= 15 THEN x * 2^(15 - k) ELSE RDiv(x, 2^(k - 15))
         IN  (k - 15) * LN2 + LnMant(m)

\* t_n - t_(n+1) + ... where t_n = (f / FP)^n / n!, given t_(n-1) = term.
RECURSIVE ExpTail(_, _, _)
ExpTail(f, term, n) ==
    LET next == RDiv(term * f, n * FP)
    IN  IF next = 0 \/ n > 12 THEN 0
        ELSE next - ExpTail(f, next, n + 1)

\* exp(-z / FP) for z >= 0:  2^-j exp(-f) with z = j ln 2 + f.
ExpNeg(z) ==
    LET j == z \div LN2
        f == z - j * LN2
    IN  RDiv(FP - ExpTail(f, FP, 1), 2^j)

\* x * (whole + hi / 10^4 + lo / 10^8): the product with a decimal constant.
MulC(x, whole, hi, lo) ==
    x * whole + SDiv(x * hi, 10000) + SDiv(x * lo, 100000000)

\* (v / FP) ** -(hi / 10^4 + lo / 10^8) for v > 0.
PowNeg(v, hi, lo) == ExpNeg(MulC(Ln(v), 0, hi, lo))

(* --------------------------- colour model ------------------------------ *)

\* The channel value that stands for the ValueError int(nan) raises.
Raised == -1

c8bit_unclamped(num) ==
    IF num = NaN THEN Raised
    ELSE IF num < 0 THEN 0
    ELSE num \div FP

c8bit(num) ==
    IF num = NaN THEN Raised
    ELSE IF num < 0 THEN 0
    ELSE IF num > F(255) THEN 255
    ELSE num \div FP

\* 0.1, the floor r, g and b substitute for a temperature <= 0.
Floor01 == RDiv(FP, 10)

unfloored(temp) == temp

floored(temp) == IF temp <= 0 THEN Floor01 ELSE temp

\* a * ln(x / FP) - c, with numpy's nan and -inf passed through.
LogFit(x, whole, hi, lo, c) ==
    LET l == Ln(x)
    IN  IF l = NaN \/ l = NegInf THEN l ELSE MulC(l, whole, hi, lo) - c

\* a * (x / FP) ** -p.
PowFit(x, whole, hi, lo, phi, plo) ==
    MulC(PowNeg(x, phi, plo), whole, hi, lo)

\* The red channel before c8bit.
red(temp) ==
    LET t == floored(temp)
    IN  IF t <= F(66) THEN F(255)
        ELSE PowFit(t - F(60), 329, 6987, 2745, 1332, 476)

\* The green channel before c8bit.
green(temp) ==
    LET t == floored(temp)
    IN  IF t <= F(66) THEN LogFit(t, 99, 4708, 259, 5279566)
        ELSE PowFit(t - F(60), 288, 1221, 6953, 755, 1485)

blue_strict(temp) ==
    LET t == floored(temp)
    IN  IF t > F(66) THEN F(255)
        ELSE IF t <= F(19) THEN 0
        ELSE LogFit(t - F(10), 138, 5177, 3122, 9995708)

\* The blue channel before c8bit.
blue(temp) ==
    LET t == floored(temp)
    IN  IF t >= F(66) THEN F(255)
        ELSE IF t <= F(19) THEN 0
        ELSE LogFit(t - F(10), 138, 5177, 3122, 9995708)

r(temp) == c8bit(red(temp))

g(temp) == c8bit(green(temp))

b(temp) == c8bit(blue(temp))

\* RGBColor(r(output), g(output), b(output)).
RGBColor(output) ==
    [red |-> r(output), green |-> g(output), blue |-> b(output)]

(* ------------------------------ sensors -------------------------------- *)

\* Sensor groups psutil may report; coretemp and k10temp are the CPU's.
Names == {"coretemp", "k10temp", "acpitz"}

Allowed == {"coretemp", "k10temp"}

\* The 'current' readings a sensor entry may carry.
Readings == {F(-5), F(10), F(50), F(60), F(85)}

RECURSIVE SeqsUpTo(_, _)
SeqsUpTo(S, n) ==
    IF n = 0 THEN {<< >>}
    ELSE LET shorter == SeqsUpTo(S, n - 1)
         IN  shorter \cup {Append(q, v) : q \in shorter, v \in S}

\* sensors_temperatures(): a dict from group names to lists of readings.
AllReports ==
    UNION {[D -> SeqsUpTo(Readings, MaxEntries)] : D \in SUBSET Names}

\* The empty dict: no sensor data at all.
NoSensors == << >>

OneGroup(name, entries) == [n \in {name} |-> entries]

\* The reports the running loop is fed: none, one CPU reading, a foreign group.
LoopReports ==
    {NoSensors}
    \cup {OneGroup("coretemp", <<v>>) : v \in Readings}
    \cup {OneGroup("acpitz", <<F(50)>>)}

\* sys.exit inside cputemp, in place of a returned temperature.
SystemExit == -1

\* for entry in entries: if entry.current > temp: temp = entry.current
RECURSIVE ScanEntries(_, _, _)
ScanEntries(entries, i, t) ==
    IF i > Len(entries) THEN t
    ELSE ScanEntries(entries, i + 1, IF entries[i] > t THEN entries[i] ELSE t)

\* for name, entries in temps.items(): if name is a CPU group: scan it
RECURSIVE ScanGroups(_, _, _)
ScanGroups(rep, names, t) ==
    IF names = {} THEN t
    ELSE LET n == CHOOSE m \in names : TRUE
         IN  ScanGroups(rep, names \ {n},
                        IF n \in Allowed THEN ScanEntries(rep[n], 1, t) ELSE t)

cputemp_strict(rep) ==
    IF DOMAIN rep \cap Allowed = {} THEN SystemExit
    ELSE ScanGroups(rep, DOMAIN rep, 0)

cputemp(rep) ==
    IF DOMAIN rep = {} THEN SystemExit
    ELSE ScanGroups(rep, DOMAIN rep, 0)

(* ------------------------------- the loop ------------------------------ *)

COLORSHIFT == 0

Average_slow(x, y) == ((3 * x + y) \div (4 * Ulp)) * Ulp

\* (a + b) / 2.0, rounded to nearest-even at the kept precision.
Average(x, y) ==
    LET s == (x + y) \div Ulp
        q == s \div 2
    IN  IF s % 2 = 0 \/ q % 2 = 0 THEN q * Ulp ELSE (q + 1) * Ulp

UpdateOffset_flipped(off, t) == IF t > off THEN t ELSE off

\* if temp < offset: offset = temp
UpdateOffset(off, t) == IF t < off THEN t ELSE off

\* temp - offset + COLORSHIFT
Shifted(t, off) == t - off + F(COLORSHIFT)

LoopBody_swapped(off, t, s) ==
    LET t2   == Average(t, s)
        off2 == UpdateOffset(off, t2)
    IN  [offset |-> off2, temp |-> t2, output |-> Shifted(t2, off2)]

LoopBody_unsmoothed(off, t, s) ==
    LET off2 == UpdateOffset(off, t)
    IN  [offset |-> off2, temp |-> s, output |-> Shifted(s, off2)]

\* One pass of the while loop up to the colour: offset, then temp, then output.
LoopBody(off, t, s) ==
    LET off2 == UpdateOffset(off, t)
        t2   == Average(t, s)
    IN  [offset |-> off2, temp |-> t2, output |-> Shifted(t2, off2)]

VARIABLES
    pc,       \* "start", "loop" (at the while), "sleep" (in sleep) or "exited"
    temps,    \* the sensor report the last cputemp() call read
    sample,   \* what the last cputemp() call returned
    temp,     \* the smoothed temperature
    offset,   \* the ambient offset
    output,   \* the shifted temperature given to r, g and b
    colour,   \* the colour the motherboard shows
    calls,    \* the calls of the startup, then of the latest pass, in order
    ticks,    \* history: passes of the loop so far, saturating at MaxTicks
    seen      \* history: the least of 20.0 and every value temp has held

vars == <<pc, temps, sample, temp, offset, output, colour, calls, ticks, seen>>

Black == [red |-> 0, green |-> 0, blue |-> 0]

StartCalls ==
    <<"OpenRGBClient", "clear", "get_devices_by_type", "set_color", "cputemp">>

TickCalls_pushfirst == <<"set_color", "cputemp">>

TickCalls == <<"cputemp", "set_color">>

\* The daemon's action has been entered and nothing has run yet.
Init ==
    /\ pc = "start"
    /\ temps = NoSensors
    /\ sample = 0
    /\ temp = 0
    /\ offset = F(20)
    /\ output = 0
    /\ colour = Black
    /\ calls = << >>
    /\ ticks = 0
    /\ seen = F(20)

\* cputemp2rgb() up to the while: connect, clear, select the motherboard,
\* dim it, offset = 20, temp = cputemp().
Startup(reports) ==
    /\ pc = "start"
    /\ \E rep \in reports :
         /\ temps' = rep
         /\ calls' = StartCalls
         /\ colour' = Black
         /\ offset' = F(20)
         /\ IF cputemp(rep) = SystemExit
            THEN /\ pc' = "exited"
                 /\ UNCHANGED <<sample, temp, seen>>
            ELSE /\ pc' = "loop"
                 /\ sample' = cputemp(rep)
                 /\ temp' = cputemp(rep)
                 /\ seen' = Min(F(20), cputemp(rep))
    /\ UNCHANGED <<output, ticks>>

\* One pass of the while loop, up to its sleep(5.0).
Tick(reports) ==
    /\ pc = "loop"
    /\ \E rep \in reports :
         /\ temps' = rep
         /\ IF cputemp(rep) = SystemExit
            THEN /\ pc' = "exited"
                 /\ offset' = UpdateOffset(offset, temp)
                 /\ calls' = <<"cputemp">>
                 /\ UNCHANGED <<sample, temp, output, colour, ticks, seen>>
            ELSE LET new == LoopBody(offset, temp, cputemp(rep))
                 IN  /\ pc' = "sleep"
                     /\ sample' = cputemp(rep)
                     /\ offset' = new.offset
                     /\ temp' = new.temp
                     /\ output' = new.output
                     /\ colour' = RGBColor(new.output)
                     /\ calls' = TickCalls
                     /\ ticks' = Min(ticks + 1, MaxTicks)
                     /\ seen' = Min(seen, new.temp)

\* sleep(5.0) returns and the while starts over.
Sleep ==
    /\ pc = "sleep"
    /\ pc' = "loop"
    /\ calls' = Append(calls, "sleep")
    /\ UNCHANGED <<temps, sample, temp, offset, output, colour, ticks, seen>>

Next == Startup(LoopReports) \/ Tick(LoopReports) \/ Sleep

Spec == Init /\ [][Next]_vars

\* The loop is the only thread, its calls return and so does sleep(5.0).
SpecLive == Spec /\ WF_vars(Tick(LoopReports)) /\ WF_vars(Sleep)

(* ------------------ the pure functions on their own -------------------- *)

\* 0.001
Milli == RDiv(FP, 1000)

\* Temperatures given to the colour model: a grid across both thresholds,
\* the neighbours of 0, 19 and 66, the floor itself and two far values.
ColorInputs ==
    {k * Ulp : k \in (-30 * 2^FracBits) .. (120 * 2^FracBits)}
    \cup {F(d) + e : d \in {0, 19, 66}, e \in {-Milli, Milli}}
    \cup {Floor01, F(-1000), F(10000)}

InitColor ==
    /\ pc = "colour"
    /\ output \in ColorInputs
    /\ temps = NoSensors
    /\ sample = 0
    /\ temp = 0
    /\ offset = F(20)
    /\ colour = Black
    /\ calls = << >>
    /\ ticks = 0
    /\ seen = F(20)

\* motherboard.set_color(RGBColor(r(output), g(output), b(output)))
SetColor ==
    /\ pc = "colour"
    /\ pc' = "shown"
    /\ colour' = RGBColor(output)
    /\ calls' = <<"set_color">>
    /\ UNCHANGED <<temps, sample, temp, offset, output, ticks, seen>>

\* The colour model applied to any temperature.
SpecColor == InitColor /\ [][SetColor]_vars

\* The first cputemp() call on any sensor report.
SpecSensor == Init /\ [][Startup(AllReports)]_vars

(* ------------------------------- claims -------------------------------- *)

\* A pass of the loop that reached its colour push and its sleep.
Ticked == pc = "loop" /\ pc' = "sleep"

\* The while loop has been entered and the daemon has not exited.
Looping == pc \in {"loop", "sleep"}

\* C1: the ambient offset never exceeds 20.0, never grows from one pass to
\* the next, and at the first colour push it is the lesser of 20.0 and the
\* first raw sample.
C1_OffsetSeededAndNonIncreasing ==
    /\ [](pc # "start" => offset <= F(20))
    /\ [][Looping =>
            /\ offset' <= offset
            /\ (ticks = 0 /\ ticks' = 1 => offset' = Min(F(20), sample))]_vars

\* The first colour push after a first raw sample of 10.0: the offset is 10.0.
C1_Witness == pc = "sleep" /\ ticks = 1 /\ offset = F(10)

\* C2 as stated: after every pass the ambient offset is the least of 20.0 and
\* every smoothed temperature held so far, the newest included, and so is no
\* greater than the smoothed temperature.
C2_OffsetIsMinOfAllSmoothed ==
    pc = "sleep" => offset = seen /\ offset <= temp

\* C2 as amended: after every pass the ambient offset is the least of 20.0 and
\* the smoothed temperatures held before that pass smoothed in its sample, so
\* it is no greater than the smoothed temperature the pass started from.
C2_OffsetIsMinOfEarlierSmoothed ==
    [][Ticked => offset' = seen /\ offset' <= temp /\ seen' <= offset']_vars

\* The offset was lowered once and the newest smoothed temperature is lower yet.
C2_Witness ==
    pc = "sleep" /\ ticks >= 2 /\ offset < F(20) /\ temp < offset /\ seen = temp

\* C3: a pass first lowers the offset to the smoothed temperature the last
\* pass left, then averages that temperature with the new sample, then hands
\* the new temperature minus the new offset plus COLORSHIFT to the colour model.
C3_TickOrder ==
    [][Ticked =>
         /\ offset' = Min(offset, temp)
         /\ Abs(2 * temp' - (temp + sample')) <= Ulp
         /\ ((temp + sample') % (2 * Ulp) = 0 => 2 * temp' = temp + sample')
         /\ output' = temp' - offset' + F(COLORSHIFT)
         /\ colour' = RGBColor(output')]_vars

\* From 50.0 with offset 20.0 a sample of 60.0 gives 55.0, 20.0 and 35.0.
C3_Witness ==
    /\ pc = "sleep"
    /\ sample = F(60) /\ temp = F(55) /\ offset = F(20) /\ output = F(35)

InByte(v) == v \in 0..255

\* What c8bit promises of the channel v it makes from the raw value raw.
Clamps(raw, v) ==
    /\ raw < 0 => v = 0
    /\ raw > F(255) => v = 255
    /\ (0 <= raw /\ raw <= F(255)) => (F(v) <= raw /\ raw < F(v + 1))

\* C4: whatever the temperature, every channel of the colour shown is an
\* integer from 0 to 255: 0 for a negative raw value, 255 for one above 255,
\* otherwise the raw value truncated (255.999 gives 255, -0.5 gives 0).
C4_ChannelsInByteRange ==
    pc = "shown" =>
        /\ InByte(colour.red) /\ InByte(colour.green) /\ InByte(colour.blue)
        /\ Clamps(red(output), colour.red)
        /\ Clamps(green(output), colour.green)
        /\ Clamps(blue(output), colour.blue)
        /\ c8bit(F(256) - Milli) = 255
        /\ c8bit(-(FP \div 2)) = 0

\* A raw red above 255 (just over 66 degrees) shown as 255, beside a green
\* within range.
C4_Witness ==
    /\ pc = "shown"
    /\ red(output) > F(255) /\ colour.red = 255
    /\ green(output) > 0 /\ green(output) < F(255)

\* C5 as stated: from 66 degrees up, red and blue are both 255.
C5_RedAndBlueSaturateFrom66 ==
    pc = "shown" /\ output >= F(66) => colour.red = 255 /\ colour.blue = 255

\* C5 as amended: from 66 degrees up blue is 255; red is 255 up to 66.75
\* degrees and below 255 from 67 degrees up.
C5_BlueSaturatesRedFalls ==
    pc = "shown" /\ output >= F(66) =>
        /\ colour.blue = 255
        /\ (output <= F(66) + 3 * (FP \div 4) => colour.red = 255)
        /\ (output >= F(67) => colour.red < 255)

\* 85 degrees: blue 255, red 214.
C5_Witness ==
    pc = "shown" /\ output = F(85) /\ colour.blue = 255 /\ colour.red = 214

\* C6: a temperature of 0 or less gives the colour of 0.1 on all three
\* channels: red by the upper branch, green by the logarithm of 0.1, blue by
\* the lower threshold.
C6_FloorSubstitution ==
    pc = "shown" /\ output <= 0 =>
        /\ colour = RGBColor(Floor01)
        /\ colour = [red |-> 255, green |-> 0, blue |-> 0]

\* A negative temperature shown as the colour of 0.1.
C6_Witness ==
    pc = "shown" /\ output < 0 /\ output > F(-20) /\ colour.red = 255

CpuReadings(rep) ==
    UNION {{rep[n][i] : i \in 1..Len(rep[n])} : n \in DOMAIN rep \cap Allowed}

\* C8: cputemp() returns the greatest reading of the coretemp and k10temp
\* groups, negative readings included; 0.0 when no such group is reported;
\* and it exits only when no group is reported at all.
C8_SampleIsMaxReading ==
    pc # "start" =>
        /\ (pc = "exited") = (DOMAIN temps = {})
        /\ (pc = "loop" /\ DOMAIN temps \cap Allowed = {} => sample = 0)
        /\ (pc = "loop" /\ CpuReadings(temps) # {} =>
               /\ sample \in CpuReadings(temps)
               /\ \A v \in CpuReadings(temps) : v <= sample)

Count(name, log) == Cardinality({i \in 1..Len(log) : log[i] = name})

Index(name, log) == CHOOSE i \in 1..Len(log) : log[i] = name

\* C9 as stated: one connect and one device selection, before the first pass;
\* one set_color per pass, after the sample and before the sleep; none
\* outside a pass.
C9_SetColorOnlyInTicks ==
    /\ (pc = "loop" /\ ticks = 0 =>
           /\ Count("OpenRGBClient", calls) = 1
           /\ Count("get_devices_by_type", calls) = 1
           /\ Count("set_color", calls) = 0)
    /\ (pc = "loop" /\ ticks >= 1 =>
           /\ Count("set_color", calls) = 1
           /\ Index("cputemp", calls) < Index("set_color", calls)
           /\ Index("set_color", calls) < Index("sleep", calls))

\* C9 as amended: one connect and one device selection, before the first
\* pass; one set_color at startup, which dims the board to black between the
\* selection and the first sample; one set_color per pass, after the sample
\* and before the sleep.
C9_SetColorAtStartupAndInTicks ==
    /\ (pc = "start" => calls = << >>)
    /\ (pc = "loop" /\ ticks = 0 =>
           /\ Count("OpenRGBClient", calls) = 1
           /\ Count("get_devices_by_type", calls) = 1
           /\ Count("set_color", calls) = 1
           /\ Index("OpenRGBClient", calls) < Index("get_devices_by_type", calls)
           /\ Index("get_devices_by_type", calls) < Index("set_color", calls)
           /\ Index("set_color", calls) < Index("cputemp", calls)
           /\ colour = Black)
    /\ (pc = "sleep" =>
           /\ Count("set_color", calls) = 1
           /\ Count("sleep", calls) = 0
           /\ Index("cputemp", calls) < Index("set_color", calls))
    /\ (pc = "loop" /\ ticks >= 1 =>
           /\ Count("OpenRGBClient", calls) = 0
           /\ Count("get_devices_by_type", calls) = 0
           /\ Count("set_color", calls) = 1
           /\ Count("cputemp", calls) = 1
           /\ Count("sleep", calls) = 1
           /\ Index("cputemp", calls) < Index("set_color", calls)
           /\ Index("set_color", calls) < Index("sleep", calls))

\* A second pass ended: sample, colour push, sleep.
C9_Witness ==
    pc = "loop" /\ ticks = 2 /\ Len(calls) = 3 /\ calls[2] = "set_color"

\* Red at 255 with green and blue within ten counts of it.
NearWhite(c) == c.red = 255 /\ c.green >= 245 /\ c.blue >= 245

\* Under a lasting sample of 85.0 the distance of the smoothed temperature
\* from 85 halves (to the rounding of the average) on every pass and the
\* offset stays put.
Settling ==
    [][Ticked /\ sample = F(85) /\ sample' = F(85) =>
         /\ offset' = offset
         /\ 2 * Abs(temp' - F(85)) <= Abs(temp - F(85)) + Ulp
         /\ (temp # F(85) => Abs(temp' - F(85)) < Abs(temp - F(85)))
         /\ output' = temp' - offset]_vars

OffsetNearDefault == offset >= F(73) \div 4

====
